---- MODULE Spec2Model ----
(***************************************************************************)
(* Model of scripts/email_sender.py: send_graduation_alert.                *)
(*                                                                         *)
(* A text is a sequence of fragments: the literal pieces of the f-string   *)
(* templates are one fragment each, the caller's texts are sequences of    *)
(* one-character fragments.  One call is the sequence of steps             *)
(*   format (40-58), build message (60-63), connect (66), send (68),       *)
(*   leave the with block (66-68), log and return (69-83).                 *)
(* The relay and the network are the environment: every step that talks to *)
(* them picks its outcome nondeterministically.                            *)
(***************************************************************************)
EXTENDS Integers, Sequences, FiniteSets, TLC

\* ---------------------------------------------------------------- bounds
MaxLen == 2      \* longest project type / language code, in characters
MaxCount == 42   \* largest metric value passed by the caller
MaxCalls == 2    \* calls made one after the other with the same arguments

\* ---------------------------------------------------------------- inputs
Surrogate == "<lone surrogate>"   \* a character utf-8 cannot encode
Chars == {"q", Surrogate}
Texts == UNION {[1..n -> Chars] : n \in 0..MaxLen}
Counts == {0, MaxCount}
Recipients == {"langcom@lists.wikimedia.org", "tools.me@toolforge.org"}
Senders == {"incubator-dashboard.alerts@toolforge.org"}

VARIABLES
  project_type, language_code, active_users, edits,
  consecutive_months_met_criteria, recipient_email, sender_email,
  pc,        \* position of the call
  calls,     \* calls started so far
  subject, body, msg,
  server,    \* the smtplib.SMTP connection: "none", "open", "closed"
  exc,       \* the exception in flight: its class ("none", "SMTPException",
             \* "Exception") and its detail
  log,       \* records handed to logger during the call
  result,    \* "none", "True", "False", or "raised" (an exception left the function)
  accepted,  \* ghost: the relay acknowledged the message during the call
  trace,     \* ghost: the steps of the call so far, with their outcomes
  prevSubject, prevBody  \* ghost: what the previous call formatted

args == <<project_type, language_code, active_users, edits,
          consecutive_months_met_criteria, recipient_email, sender_email>>
vars == <<args, pc, calls, subject, body, msg, server, exc, log, result,
          accepted, trace, prevSubject, prevBody>>

NoText == <<"<unset>">>
NoExc == [class |-> "none", detail |-> "none"]
Raised(c, d) == [class |-> c, detail |-> d]
NoMsg == [Subject |-> NoText, From |-> "", To |-> "", payload |-> NoText]

\* ------------------------------------------------------------ formatting
Digit(d) == <<"0", "1", "2", "3", "4", "5", "6", "7", "8", "9">>[d + 1]

RECURSIVE Decimal(_)
Decimal(n) == IF n < 10 THEN <<Digit(n)>> ELSE Decimal(n \div 10) \o <<Digit(n % 10)>>

SubjectPrefix == "Wikimedia Incubator - Project potentially close to graduation: "

\* the two placeholders exchanged
SubjectSwapped(pt, lc) == <<SubjectPrefix>> \o lc \o <<" (">> \o pt \o <<")">>

Subject(pt, lc) == <<SubjectPrefix>> \o pt \o <<" (">> \o lc \o <<")">>

Body(pt, lc, au, ed, cm) ==
  <<"\nDear LangCom,\n\nThis is an automated alert to inform you that the project for **">>
  \o pt \o <<" (">> \o lc \o <<")">>
  \o <<"**\nappears to have met the minimum criteria for potential graduation from the Incubator.\n\nBased on recent metrics, the project has shown consistent activity:\n- Active Users (last month): ">>
  \o Decimal(au)
  \o <<"\n- Edits (last month): ">>
  \o Decimal(ed)
  \o <<"\n- Consecutive Months Meeting Criteria (at least 4 active users with 15 edits): ">>
  \o Decimal(cm)
  \o <<"\n\nPlease review the project's status and consider it for graduation.\n\nThis alert was generated by the Incubator Dashboard monitoring system.\n\nBest regards,\nIncubator Dashboard Alerts\n">>

\* MIMEText(body, 'plain', 'utf-8') and Header(subject, 'utf-8') encode strictly
Encodable(text) == \A i \in DOMAIN text : text[i] # Surrogate

\* ------------------------------------------------------------- the steps
Step(s, o) == [step |-> s, outcome |-> o]

Init ==
  /\ project_type \in Texts
  /\ language_code \in Texts
  /\ active_users \in Counts
  /\ edits \in Counts
  /\ consecutive_months_met_criteria \in Counts
  /\ recipient_email \in Recipients
  /\ sender_email \in Senders
  /\ pc = "idle"
  /\ calls = 0
  /\ subject = NoText
  /\ body = NoText
  /\ msg = NoMsg
  /\ server = "none"
  /\ exc = NoExc
  /\ log = <<>>
  /\ result = "none"
  /\ accepted = FALSE
  /\ trace = <<>>
  /\ prevSubject = NoText
  /\ prevBody = NoText

\* the caller enters send_graduation_alert (again, with the same arguments)
Call ==
  /\ pc \in {"idle", "returned", "raised"}
  /\ calls < MaxCalls
  /\ calls' = calls + 1
  /\ pc' = "format"
  /\ prevSubject' = subject
  /\ prevBody' = body
  /\ subject' = NoText
  /\ body' = NoText
  /\ msg' = NoMsg
  /\ server' = "none"
  /\ exc' = NoExc
  /\ log' = <<>>
  /\ result' = "none"
  /\ accepted' = FALSE
  /\ trace' = <<>>
  /\ UNCHANGED args

\* lines 40-58: the two f-strings
Format ==
  /\ pc = "format"
  /\ subject' = Subject(project_type, language_code)
  /\ body' = Body(project_type, language_code, active_users, edits,
                  consecutive_months_met_criteria)
  /\ trace' = Append(trace, Step("format", "ok"))
  /\ pc' = "build"
  /\ UNCHANGED <<args, calls, msg, server, exc, log, result, accepted,
                 prevSubject, prevBody>>

\* lines 60-63, before the try: an exception here leaves the function
BuildMessage ==
  /\ pc = "build"
  /\ IF Encodable(body) /\ Encodable(subject)
       THEN /\ msg' = [Subject |-> subject, From |-> sender_email,
                       To |-> recipient_email, payload |-> body]
            /\ trace' = Append(trace, Step("build", "ok"))
            /\ pc' = "connect"
            /\ UNCHANGED <<exc, result>>
       ELSE /\ exc' = Raised("Exception", "UnicodeEncodeError")
            /\ result' = "raised"
            /\ trace' = Append(trace, Step("build", "UnicodeEncodeError"))
            /\ pc' = "raised"
            /\ UNCHANGED msg
  /\ UNCHANGED <<args, calls, subject, body, server, log, accepted,
                 prevSubject, prevBody>>

\* ---- line 66, smtplib.SMTP(smtp_server, smtp_port): what the relay can do
ConnectOutcomes == {"greeting_220", "greeting_rejected", "connection_refused", "timed_out"}

\* a refused or timed out socket is an OSError, which is no SMTPException;
\* a greeting other than 220 is SMTPConnectError
ConnectRaises(o) ==
  CASE o = "greeting_220" -> "none"
    [] o = "greeting_rejected" -> "SMTPException"
    [] OTHER -> "Exception"

\* SMTP.__init__ closes the socket itself before raising SMTPConnectError
ServerAfterConnect(o) ==
  CASE o = "greeting_220" -> "open"
    [] o = "greeting_rejected" -> "closed"
    [] OTHER -> "none"

Connect ==
  /\ pc = "connect"
  /\ \E o \in ConnectOutcomes :
       /\ server' = ServerAfterConnect(o)
       /\ exc' = IF ConnectRaises(o) = "none" THEN exc ELSE Raised(ConnectRaises(o), o)
       /\ trace' = Append(trace, Step("connect", o))
       /\ pc' = IF ConnectRaises(o) = "none" THEN "send" ELSE "except"
  /\ UNCHANGED <<args, calls, subject, body, msg, log, result, accepted,
                 prevSubject, prevBody>>

\* ---- line 68, server.send_message(msg)
SendOutcomes == {"acknowledged", "rejected", "protocol_error", "other_error"}

SendRaises(o) ==
  CASE o = "acknowledged" -> "none"
    [] o \in {"rejected", "protocol_error"} -> "SMTPException"
    [] OTHER -> "Exception"

Send ==
  /\ pc = "send"
  /\ \E o \in SendOutcomes :
       /\ accepted' = (o = "acknowledged")
       /\ exc' = IF SendRaises(o) = "none" THEN exc ELSE Raised(SendRaises(o), o)
       /\ trace' = Append(trace, Step("send", o))
  /\ pc' = "exit"
  /\ UNCHANGED <<args, calls, subject, body, msg, server, log, result,
                 prevSubject, prevBody>>

\* ---- lines 66-68, leaving the with block: SMTP.__exit__ sends QUIT, raises
\* SMTPResponseException on a reply other than 221, swallows a disconnect, and
\* closes the socket in its finally; it never suppresses the exception in flight.
\* Every QUIT outcome is allowed after every send outcome (an over-approximation:
\* after a dropped connection QUIT can only find the relay gone).
QuitOutcomes == {"quit_221", "quit_disconnected", "quit_bad_reply"}

ExitRaises(q, pending) ==
  IF q = "quit_bad_reply" THEN Raised("SMTPException", q) ELSE pending

\* the socket closed only after a clean QUIT, as without the finally
ServerAfterExitLeak(q) == IF q = "quit_221" THEN "closed" ELSE "open"

ServerAfterExit(q) == "closed"

\* a failed attempt started over instead of handled
AfterExitRetry(e) == IF e.class = "none" THEN "success" ELSE "connect"

AfterExit(e) == IF e.class = "none" THEN "success" ELSE "except"

Exit ==
  /\ pc = "exit"
  /\ \E q \in QuitOutcomes :
       /\ server' = ServerAfterExit(q)
       /\ exc' = ExitRaises(q, exc)
       /\ trace' = Append(trace, Step("disconnect", q))
       /\ pc' = AfterExit(ExitRaises(q, exc))
  /\ UNCHANGED <<args, calls, subject, body, msg, log, result, accepted,
                 prevSubject, prevBody>>

\* ---- lines 69-83: the log records
InfoRecord ==
  [level |-> "INFO", text |-> "Successfully sent graduation alert",
   names |-> [project_type |-> project_type, language_code |-> language_code,
              recipient_email |-> recipient_email, sender_email |-> sender_email]]

\* the language code left out of the error message
ErrorRecordNoLanguage(text, e) ==
  [level |-> "ERROR", text |-> text,
   names |-> [project_type |-> project_type, e |-> e.detail]]

ErrorRecord(text, e) ==
  [level |-> "ERROR", text |-> text,
   names |-> [project_type |-> project_type, language_code |-> language_code,
              e |-> e.detail]]

\* the except clauses in the other order: Exception takes everything
HandlerGenericFirst(e) == "An unexpected error"

\* the first clause widened to every error
HandlerAllSMTP(e) == "SMTP error"

\* which except clause takes the exception: line 74 before line 79
Handler(e) == IF e.class = "SMTPException" THEN "SMTP error" ELSE "An unexpected error"

\* lines 69-73
LogSuccess ==
  /\ pc = "success"
  /\ log' = Append(log, InfoRecord)
  /\ result' = "True"
  /\ trace' = Append(trace, Step("log", "INFO"))
  /\ pc' = "returned"
  /\ UNCHANGED <<args, calls, subject, body, msg, server, exc, accepted,
                 prevSubject, prevBody>>

\* lines 74-78
ExceptSMTPException ==
  /\ pc = "except"
  /\ Handler(exc) = "SMTP error"
  /\ log' = Append(log, ErrorRecord("SMTP error", exc))
  /\ result' = "False"
  /\ exc' = NoExc
  /\ trace' = Append(trace, Step("log", "ERROR"))
  /\ pc' = "returned"
  /\ UNCHANGED <<args, calls, subject, body, msg, server, accepted,
                 prevSubject, prevBody>>

\* lines 79-83
ExceptException ==
  /\ pc = "except"
  /\ Handler(exc) = "An unexpected error"
  /\ log' = Append(log, ErrorRecord("An unexpected error", exc))
  /\ result' = "False"
  /\ exc' = NoExc
  /\ trace' = Append(trace, Step("log", "ERROR"))
  /\ pc' = "returned"
  /\ UNCHANGED <<args, calls, subject, body, msg, server, accepted,
                 prevSubject, prevBody>>

Next ==
  \/ Call
  \/ Format
  \/ BuildMessage
  \/ Connect
  \/ Send
  \/ Exit
  \/ LogSuccess
  \/ ExceptSMTPException
  \/ ExceptException

Spec == Init /\ [][Next]_vars

\* ================================================================ claims
Done == pc \in {"returned", "raised"}
Has(s, o) == \E i \in DOMAIN trace : trace[i] = Step(s, o)
At(s) == {i \in DOMAIN trace : trace[i].step = s}
Errors == {i \in DOMAIN log : log[i].level = "ERROR"}
Infos == {i \in DOMAIN log : log[i].level = "INFO"}

\* a step that ended in an exception
FailedStep(i) ==
  trace[i].outcome \in {"UnicodeEncodeError", "greeting_rejected", "connection_refused",
                        "timed_out", "rejected", "protocol_error", "other_error",
                        "quit_bad_reply"}
FailedAttempt(i) == trace[i].step \in {"connect", "send"} /\ FailedStep(i)

\* C1: whatever step of the call fails (formatting and building the message,
\* connecting, sending, disconnecting), the call ends by returning false and no
\* exception reaches the caller.
C1_FailuresAbsorbed ==
  /\ pc # "raised"
  /\ (Done /\ \E i \in DOMAIN trace : FailedStep(i)) => result = "False"

\* C2: when the relay accepts the connection and acknowledges the message, the
\* call returns true with exactly one informational record and no error record.
C2_AcceptedReturnsTrue ==
  (Done /\ Has("connect", "greeting_220") /\ Has("send", "acknowledged"))
    => /\ result = "True"
       /\ Cardinality(Infos) = 1
       /\ Errors = {}

\* C3 as stated: when the relay refuses the connection or returns a protocol
\* error, the call returns false with exactly one error record, and that record
\* is the "SMTP error" one.
RelayRefused ==
  \/ Has("connect", "connection_refused")
  \/ Has("connect", "greeting_rejected")
  \/ Has("send", "rejected")
  \/ Has("send", "protocol_error")

C3_RefusalLoggedAsSMTPError ==
  (Done /\ RelayRefused)
    => /\ result = "False"
       /\ Len(log) = 1
       /\ log[1].level = "ERROR"
       /\ log[1].text = "SMTP error"

\* C3 amended: when the relay refuses the connection or returns a protocol
\* error, the call returns false with exactly one error record; the record is the
\* "SMTP error" one when the failure is an SMTPException (a greeting other than
\* 220, a rejected or broken exchange) and the "unexpected error" one when the
\* connection is refused at the socket (an OSError).
C3_RefusalLogged ==
  (Done /\ RelayRefused)
    => /\ result = "False"
       /\ Len(log) = 1
       /\ log[1].level = "ERROR"
       /\ log[1].text = IF Has("connect", "connection_refused")
                          THEN "An unexpected error" ELSE "SMTP error"

C3_Witness ==
  /\ pc = "returned"
  /\ Has("connect", "connection_refused")
  /\ Len(log) = 1
  /\ log[1].text = "An unexpected error"

\* C4: once a connection was opened it is closed when the call ends, whatever
\* the outcome; the call never ends with the connection open.
C4_ConnectionClosed ==
  Done => /\ server # "open"
          /\ Has("connect", "greeting_220") => server = "closed"

C4_Witness ==
  /\ pc = "returned"
  /\ Has("connect", "greeting_220")
  /\ Has("send", "other_error")
  /\ Has("disconnect", "quit_bad_reply")
  /\ server = "closed"

\* C5 as stated: every error record names the project type, the language code,
\* the recipient, the sender and the error detail.
C5_ErrorNamesAllFour ==
  \A i \in Errors :
    {"project_type", "language_code", "recipient_email", "sender_email", "e"}
      \subseteq DOMAIN log[i].names

\* C5 amended: every error record names the project type, the language code and
\* the error detail, and is formatted from nothing else: the recipient and the
\* sender are named by the success record only.
C5_ErrorNamesProject ==
  /\ \A i \in Errors :
       /\ DOMAIN log[i].names = {"project_type", "language_code", "e"}
       /\ log[i].names.project_type = project_type
       /\ log[i].names.language_code = language_code
       /\ \E j \in DOMAIN trace : FailedStep(j) /\ log[i].names.e = trace[j].outcome
  /\ \A i \in Infos :
       /\ DOMAIN log[i].names =
            {"project_type", "language_code", "recipient_email", "sender_email"}
       /\ log[i].names.recipient_email = recipient_email
       /\ log[i].names.sender_email = sender_email

C5_Witness ==
  /\ pc = "returned"
  /\ Errors # {}
  /\ Len(language_code) > 0

\* C6: no retry: one call attempts at most one connection and at most one
\* transmission, nothing is attempted after a failed attempt, and a call with a
\* failed attempt ends in failure.
C6_NoRetry ==
  /\ Cardinality(At("connect")) <= 1
  /\ Cardinality(At("send")) <= 1
  /\ \A i \in DOMAIN trace :
       FailedAttempt(i) =>
         /\ \A j \in DOMAIN trace : j > i => trace[j].step \notin {"connect", "send"}
         /\ Done => result = "False"

C6_Witness ==
  /\ pc = "returned"
  /\ Has("send", "rejected")
  /\ result = "False"

\* C7: when the relay is unreachable (the connect times out, which is no
\* SMTPException), nothing is raised to the caller and the call returns false
\* with exactly one error record, the "unexpected error" one.
C7_UnreachableGeneric ==
  Has("connect", "timed_out")
    => /\ pc # "raised"
       /\ pc \in {"except", "returned"}
       /\ pc = "returned" =>
            /\ result = "False"
            /\ Len(log) = 1
            /\ log[1].level = "ERROR"
            /\ log[1].text = "An unexpected error"

C7_Witness ==
  /\ pc = "returned"
  /\ Has("connect", "timed_out")
  /\ result = "False"

\* C8: every call is the linear sequence format, connect, send, disconnect,
\* each step at most once and in that order, and it ends in success or failure,
\* reported by the boolean and by exactly one log record of the matching level,
\* emitted after the connection was released.
Order(s) ==
  CASE s = "format" -> 1 [] s = "build" -> 2 [] s = "connect" -> 3
    [] s = "send" -> 4 [] s = "disconnect" -> 5 [] OTHER -> 6

C8_LinearSequence ==
  /\ \A i, j \in DOMAIN trace : i < j => Order(trace[i].step) < Order(trace[j].step)
  /\ At("send") # {} => Has("connect", "greeting_220")
  /\ At("disconnect") # {} => At("connect") # {}
  /\ At("connect") # {} => At("format") # {}
  /\ log # <<>> => server # "open"
  /\ Done => /\ result \in {"True", "False"}
             /\ Len(log) = 1
             /\ log[1].level = IF result = "True" THEN "INFO" ELSE "ERROR"

C10_FalseMeansNotAccepted ==
  (pc = "returned" /\ result = "False") => ~accepted

====
